---------------------------- MODULE Spec2Model ----------------------------
(***************************************************************************)
(* A model of src/article_aggregator.py (class ArticleAggregator): the     *)
(* page scraper, the text cleaner, the summarizer cascade with its bullet  *)
(* formatter and heuristic fallback, and the batch loop that drives them.  *)
(*                                                                         *)
(* Text.  A Python str is modelled as a sequence of tokens.  A token is a  *)
(* record [c, n, e]: c is its lexical class, n its length in characters    *)
(* and e the punctuation it ends with.  Whitespace is a token of class     *)
(* "sp" (a run of n blanks) or "nl" (one line feed); every other class is  *)
(* a word, i.e. a maximal run of non-blank characters.  len(), strip(),    *)
(* split(), splitlines(), slicing and the regular expressions of the code  *)
(* are operators on these sequences; a regular expression or a substring   *)
(* test is decided by the classes of the words it would match.             *)
(***************************************************************************)
EXTENDS Integers, Sequences, FiniteSets, TLC

-----------------------------------------------------------------------------
(* Tokens *)

Tok(c, n, e) == [c |-> c, n |-> n, e |-> e]
Sp(n) == Tok("sp", n, "")
NL == Tok("nl", 1, "")
W(n) == Tok("w", n, "")
Wd(n) == Tok("w", n, ".")

IsSpace(t) == t.c \in {"sp", "nl"}
IsWord(t) == ~IsSpace(t)

\* len(s), summed by halves
RECURSIVE Length(_)
Length(s) ==
    IF s = <<>> THEN 0
    ELSE IF Len(s) = 1 THEN s[1].n
    ELSE LET h == Len(s) \div 2
         IN  Length(SubSeq(s, 1, h)) + Length(SubSeq(s, h + 1, Len(s)))

\* s.split(): the words of s
WordsOf(s) == SelectSeq(s, IsWord)

\* s.strip()
Strip(s) ==
    LET idx == {i \in 1..Len(s) : IsWord(s[i])}
    IN  IF idx = {} THEN <<>>
        ELSE LET lo == CHOOSE i \in idx : \A j \in idx : i <= j
                 hi == CHOOSE i \in idx : \A j \in idx : j <= i
             IN  SubSeq(s, lo, hi)

\* s.split('\n')
RECURSIVE SplitNL(_)
SplitNL(s) ==
    LET idx == {i \in 1..Len(s) : s[i].c = "nl"}
    IN  IF idx = {} THEN <<s>>
        ELSE LET i == CHOOSE k \in idx : \A j \in idx : k <= j
             IN  <<SubSeq(s, 1, i - 1)>> \o SplitNL(SubSeq(s, i + 1, Len(s)))

\* s.splitlines(): no line for the empty string, none after a final line feed
SplitLines(s) ==
    IF s = <<>> THEN <<>>
    ELSE LET p == SplitNL(s)
         IN  IF p[Len(p)] = <<>> THEN SubSeq(p, 1, Len(p) - 1) ELSE p

\* sep.join(parts)
RECURSIVE Join(_, _)
Join(parts, sep) ==
    IF parts = <<>> THEN <<>>
    ELSE IF Len(parts) = 1 THEN parts[1]
    ELSE parts[1] \o sep \o Join(Tail(parts), sep)

\* s[:k]: a token the cut goes through keeps its first characters and
\* loses the punctuation it ended with
Truncate(s, k) ==
    LET whole == {i \in 0..Len(s) : Length(SubSeq(s, 1, i)) <= k}
        m == CHOOSE i \in whole : \A j \in whole : j <= i
        rest == k - Length(SubSeq(s, 1, m))
    IN  IF Length(s) <= k THEN s
        ELSE IF rest = 0 THEN SubSeq(s, 1, m)
        ELSE SubSeq(s, 1, m) \o <<Tok(s[m + 1].c, rest, "")>>

\* [f(x) for x in s]
StripAll(ls) == [i \in 1..Len(ls) |-> Strip(ls[i])]

-----------------------------------------------------------------------------
(* Lexical classes the line filters look at *)

\* a word holding one of clean_extracted_content's skip_patterns: "skip" is
\* a pattern filter_paragraphs lists too ('subscribe'), "skipC" one that only
\* clean_extracted_content lists ('email')
SkipPatternClasses == {"skip", "skipC"}
\* a word holding one of filter_paragraphs' skip_phrases
SkipPhraseClasses == {"skip"}

\* '©' in s
HasCopyright(s) == \E i \in 1..Len(s) : s[i].c = "copy"
\* any(pattern in s.lower() for pattern in patterns)
HasClass(s, classes) == \E i \in 1..Len(s) : s[i].c \in classes
\* s.isdigit(): digits only, so one word and no blank
IsDigit(s) == Len(s) = 1 /\ s[1].c = "num" /\ s[1].e = ""
\* re.match(r'^[\d\s\-/:.]+$', s): "num" is a run of digits, "date" a run of
\* digits and - / : characters
DatePunctOnly(s) ==
    /\ s # <<>>
    /\ \A i \in 1..Len(s) :
          IsSpace(s[i]) \/ (s[i].c \in {"num", "date"} /\ s[i].e \in {"", ".", "..."})
\* re.match(r'^\d+\s*(<unit>)', s.lower()) on a stripped s: digits, then a
\* word that begins with one of the units
StartsWithCount(s, unit) ==
    /\ Len(s) >= 3
    /\ s[1].c = "num" /\ s[1].e = ""
    /\ s[2].c = "sp" /\ s[3].c = unit
\* re.match(r'^(jan|feb|...|dec)', s.lower())
StartsWithMonth(s) == s # <<>> /\ s[1].c = "mon"
\* s.count('|'): a "pipe" word is one '|'
CountPipes(s) == Cardinality({i \in 1..Len(s) : s[i].c = "pipe"})

-----------------------------------------------------------------------------
(* clean_extracted_content *)

MinLineChars == 20
MinLineWords == 4
MaxPipes == 4
MinUniqueChars == 15

\* a variant of lines 558-566 that keeps a line that is long enough or has
\* words enough
LineKeptEither(line) ==
    /\ Length(line) > MinLineChars \/ Len(WordsOf(line)) > MinLineWords
    /\ ~IsDigit(line)
    /\ ~HasCopyright(line)
    /\ ~HasClass(line, SkipPatternClasses)
    /\ ~StartsWithCount(line, "cnt")
    /\ ~StartsWithMonth(line)
    /\ ~DatePunctOnly(line)
    /\ CountPipes(line) < MaxPipes

\* lines 558-566: the test a stripped line passes to be kept
LineKept(line) ==
    /\ Length(line) > MinLineChars
    /\ Len(WordsOf(line)) > MinLineWords
    /\ ~IsDigit(line)
    /\ ~HasCopyright(line)
    /\ ~HasClass(line, SkipPatternClasses)
    /\ ~StartsWithCount(line, "cnt")
    /\ ~StartsWithMonth(line)
    /\ ~DatePunctOnly(line)
    /\ CountPipes(line) < MaxPipes

\* a variant that tests each line as it stands and strips what it keeps
FilterLinesUnstripped(content) == StripAll(SelectSeq(SplitLines(content), LineKept))

\* lines 556-567: for line in content.splitlines(): line = line.strip() ...
FilterLines(content) == SelectSeq(StripAll(SplitLines(content)), LineKept)

\* lines 575-579: keep the first occurrence of every line
RECURSIVE UniqueLines(_, _)
UniqueLines(ls, seen_lines) ==
    IF ls = <<>> THEN <<>>
    ELSE LET line == Strip(Head(ls))
         IN  IF line # <<>> /\ line \notin seen_lines /\ Length(line) > MinUniqueChars
             THEN <<line>> \o UniqueLines(Tail(ls), seen_lines \cup {line})
             ELSE UniqueLines(Tail(ls), seen_lines)

\* lines 536-581
clean_extracted_content(content) ==
    IF content = <<>> THEN <<>>
    ELSE LET cleaned_content == Join(FilterLines(content), <<NL>>)
         IN  Join(UniqueLines(SplitLines(cleaned_content), {}), <<NL>>)



-----------------------------------------------------------------------------
(* scrape_article_content: extraction from a fetched page *)

MinSelectorChars == 200
MinParagraphContent == 100
MinFullText == 500
MinContentChars == 50
MaxContentChars == 15000
MinParagraphs == 2
MinParagraphChars == 25
MinParagraphWords == 6
MaxParagraphPipes == 3

\* a variant of line 424 that takes the first element the selector matches
FirstElement(elements) == elements[1]
\* line 424: max(elements, key=lambda x: len(x.get_text().strip())), the
\* first of the elements of largest stripped length
LargestElement(elements) ==
    LET best == CHOOSE i \in 1..Len(elements) :
                  /\ \A j \in 1..Len(elements) :
                        Length(Strip(elements[j])) <= Length(Strip(elements[i]))
                  /\ \A j \in 1..(i - 1) :
                        Length(Strip(elements[j])) < Length(Strip(elements[i]))
    IN  elements[best]

\* line 427
SelectorAccepts(raw_content) == Length(Strip(raw_content)) > MinSelectorChars

\* lines 416-434: matches[i] holds the texts of the elements the i-th
\* content selector matches
RECURSIVE SelectContent(_)
SelectContent(matches) ==
    IF matches = <<>> THEN <<>>
    ELSE IF Head(matches) # <<>> /\ SelectorAccepts(LargestElement(Head(matches)))
         THEN LargestElement(Head(matches))
         ELSE SelectContent(Tail(matches))

\* lines 521-530: the test a stripped paragraph passes
ParagraphValid(p_text) ==
    /\ Length(p_text) > MinParagraphChars
    /\ Len(WordsOf(p_text)) > MinParagraphWords
    /\ ~HasClass(p_text, SkipPhraseClasses)
    /\ ~(p_text # <<>> /\ p_text[1].c = "lead")
    /\ ~StartsWithCount(p_text, "unit")
    /\ ~StartsWithMonth(p_text)
    /\ ~HasCopyright(p_text)
    /\ ~IsDigit(p_text)
    /\ ~DatePunctOnly(p_text)
    /\ ~(CountPipes(p_text) > MaxParagraphPipes)

\* lines 500-534
filter_paragraphs(paragraphs) == SelectSeq(StripAll(paragraphs), ParagraphValid)

\* lines 469-498: found[i] holds the texts of the elements the i-th
\* paragraph strategy matches
RECURSIVE extract_paragraphs(_)
extract_paragraphs(found) ==
    IF found = <<>> THEN <<>>
    ELSE LET valid_paragraphs == filter_paragraphs(Head(found))
         IN  IF /\ Len(Head(found)) >= MinParagraphs
                /\ Len(valid_paragraphs) >= MinParagraphs
             THEN Join(valid_paragraphs, <<NL, NL>>)
             ELSE extract_paragraphs(Tail(found))

\* lines 416-447: the selector cascade, then the paragraph fallback, then
\* the full-text fallback
ExtractedContent(page) ==
    LET by_selector == SelectContent(page.matches)
        by_paragraph ==
            IF by_selector = <<>> \/ Length(Strip(by_selector)) < MinSelectorChars
            THEN extract_paragraphs(page.paragraphs)
            ELSE by_selector
    IN  IF by_paragraph = <<>> \/ Length(Strip(by_paragraph)) < MinParagraphContent
        THEN IF Length(Strip(page.all_text)) > MinFullText
             THEN clean_extracted_content(page.all_text)
             ELSE by_paragraph
        ELSE by_paragraph

\* line 449
ContentTooShort(content) == content = <<>> \/ Length(Strip(content)) < MinContentChars

\* lines 449-460: what scrape_article_content returns for a parsed page
ScrapedContent(page) ==
    LET content == ExtractedContent(page)
    IN  IF ContentTooShort(content) THEN <<>>
        ELSE Truncate(clean_extracted_content(content), MaxContentChars)

-----------------------------------------------------------------------------
(* format_ai_summary *)

MinBulletWords == 5
MaxBulletWords == 50
MinBulletChars == 20
MaxBullets == 4
FewBullets == 2

\* the bullet_patterns of line 687 the vocabulary has: '•', '-', '*', '1.', '2.'
MarkClasses == {"bullet", "dash", "star", "num1", "num2"}

\* "• "
BulletMark == <<Tok("bullet", 1, ""), Sp(1)>>
\* f"• {text}"
Bullet(text) == BulletMark \o text

\* s.startswith(prefix)
StartsWith(s, prefix) == Len(s) >= Len(prefix) /\ SubSeq(s, 1, Len(prefix)) = prefix

\* "Here's a summary:" and "Summary:", two of the prefixes_to_remove, in the
\* order of the list
PfxHeres == <<Tok("pre", 6, ""), Sp(1), Tok("pre", 1, ""), Sp(1), Tok("pre", 8, "")>>
PfxSummary == <<Tok("pre", 8, "")>>
prefixes_to_remove == <<PfxHeres, PfxSummary>>

\* lines 673-676: each prefix in turn is cut off the front, then the blanks
RECURSIVE RemovePrefixes(_, _)
RemovePrefixes(cleaned_text, prefixes) ==
    IF prefixes = <<>> THEN cleaned_text
    ELSE IF StartsWith(cleaned_text, Head(prefixes))
         THEN RemovePrefixes(
                Strip(SubSeq(cleaned_text, Len(Head(prefixes)) + 1, Len(cleaned_text))),
                Tail(prefixes))
         ELSE RemovePrefixes(cleaned_text, Tail(prefixes))

\* lines 687-693: a leading bullet or numbering marker followed by a blank
\* is cut off
StripMarker(line) ==
    IF Len(line) >= 2 /\ line[1].c \in MarkClasses /\ line[2].c = "sp"
    THEN Strip(SubSeq(line, 2, Len(line)))
    ELSE line

\* s.endswith('...')
EndsWithEllipsis(s) == s # <<>> /\ s[Len(s)].e = "..."
\* s.endswith(('.', '!', '?'))
EndsWithTerminal(s) == s # <<>> /\ s[Len(s)].e \in {".", "!", "?", "..."}
\* '.' in s: a word ends with a full stop, or is a decimal figure
HasDot(s) == \E i \in 1..Len(s) : s[i].e \in {".", "..."} \/ s[i].c = "dec"

\* a variant without the lower bound on the words of a line
LineIsBulletAnyLength(clean_line) ==
    /\ Len(WordsOf(clean_line)) <= MaxBulletWords
    /\ Length(clean_line) > MinBulletChars
    /\ ~EndsWithEllipsis(clean_line)
    /\ HasDot(clean_line)

\* lines 696-701, but for the cap on the number of bullets
LineIsBullet(clean_line) ==
    /\ Len(WordsOf(clean_line)) >= MinBulletWords
    /\ Len(WordsOf(clean_line)) <= MaxBulletWords
    /\ Length(clean_line) > MinBulletChars
    /\ ~EndsWithEllipsis(clean_line)
    /\ HasDot(clean_line)

\* lines 682-702
RECURSIVE LineBullets(_, _)
LineBullets(lines, bullets) ==
    IF lines = <<>> THEN bullets
    ELSE LET clean_line == StripMarker(Head(lines))
         IN  IF LineIsBullet(clean_line) /\ Len(bullets) < MaxBullets
             THEN LineBullets(Tail(lines), Append(bullets, Bullet(clean_line)))
             ELSE LineBullets(Tail(lines), bullets)

\* lines 711-713
SentenceIsBullet(sentence) ==
    /\ Len(WordsOf(sentence)) >= MinBulletWords
    /\ Len(WordsOf(sentence)) <= MaxBulletWords
    /\ Length(sentence) > MinBulletChars
    /\ EndsWithTerminal(sentence)

\* re.split(r'(?<=[.!?])\s+', s)
RECURSIVE SplitSentences(_)
SplitSentences(s) ==
    LET cut == {i \in 2..Len(s) :
                  IsSpace(s[i]) /\ IsWord(s[i - 1]) /\ s[i - 1].e \in {".", "!", "?", "..."}}
    IN  IF cut = {} THEN <<s>>
        ELSE LET i == CHOOSE k \in cut : \A j \in cut : k <= j
                 after == {k \in (i + 1)..Len(s) : IsWord(s[k])}
                 j == IF after = {} THEN Len(s) + 1
                      ELSE CHOOSE k \in after : \A m \in after : k <= m
             IN  <<SubSeq(s, 1, i - 1)>> \o SplitSentences(SubSeq(s, j, Len(s)))

\* s[:k] of a list
FirstN(s, k) == SubSeq(s, 1, IF Len(s) < k THEN Len(s) ELSE k)

\* lines 706-714
SentenceBullets(cleaned_text) ==
    LET sentences == StripAll(FirstN(SplitSentences(cleaned_text), MaxBullets))
        good == SelectSeq(sentences, SentenceIsBullet)
    IN  [i \in 1..Len(good) |-> Bullet(good[i])]

\* lines 678-716: the bullets format_ai_summary joins
FormatBullets(summary_text) ==
    LET cleaned_text == RemovePrefixes(Strip(summary_text), prefixes_to_remove)
        nonblank(l) == Strip(l) # <<>>
        lines == StripAll(SelectSeq(SplitNL(cleaned_text), nonblank))
        bullets == LineBullets(lines, <<>>)
    IN  FirstN(IF Len(bullets) < FewBullets THEN SentenceBullets(cleaned_text)
               ELSE bullets, MaxBullets)

\* lines 660-716
format_ai_summary(summary_text) ==
    IF summary_text = <<>> THEN <<>>
    ELSE Join(FormatBullets(summary_text), <<NL>>)

-----------------------------------------------------------------------------
(* create_title_based_summary *)

MaxCompanies == 2

\* the number of characters of the punctuation a word ends with
EndLen(e) == IF e = "" THEN 0 ELSE IF e = "..." THEN 3 ELSE 1
\* a word without the punctuation it ends with
Bare(t) == Tok(t.c, t.n - EndLen(t.e), "")

\* words that match [A-Z][a-z]+ up to their punctuation
CapClasses == {"cap", "corp", "Raises", "Launches"}
\* the action_words of line 766 the vocabulary has, in the order of the list,
\* each with the classes of the words that hold it
action_words == <<"raises", "launches">>
ActionClasses(word) ==
    IF word = "raises" THEN {"raises", "Raises"} ELSE {"launches", "Launches"}

\* the first word after position i, 0 if there is none
NextWord(s, i) ==
    LET after == {k \in (i + 1)..Len(s) : IsWord(s[k])}
    IN  IF after = {} THEN 0 ELSE CHOOSE k \in after : \A m \in after : k <= m

\* the last word of the run of capitalized words that starts at word i
RECURSIVE RunEnd(_, _)
RunEnd(s, i) ==
    LET j == NextWord(s, i)
    IN  IF s[i].e = "" /\ j > i + 1 /\ s[j].c \in CapClasses
        THEN RunEnd(s, j) ELSE i

\* line 756: re.findall(r'\b[A-Z][a-z]+(?:\s+[A-Z][a-z]+)*\b', title)
RECURSIVE Companies(_)
Companies(title) ==
    LET caps == {i \in 1..Len(title) : title[i].c \in CapClasses}
    IN  IF caps = {} THEN <<>>
        ELSE LET i == CHOOSE k \in caps : \A m \in caps : k <= m
                 k == RunEnd(title, i)
             IN  <<SubSeq(title, i, k - 1) \o <<Bare(title[k])>> >>
                 \o Companies(SubSeq(title, k + 1, Len(title)))

\* line 761: re.findall(r'\$[\d,.]+(million|billion|M|B|k)', title,
\* re.IGNORECASE) returns the unit group of each match: "usdM" is an amount
\* like $50M and "usdk" one like $30k
MoneyUnit(t) == IF t.c = "usdM" THEN Tok("M", 1, "") ELSE Tok("k", 1, "")
MoneyMatches(title) ==
    LET amounts == SelectSeq(title, LAMBDA t : t.c \in {"usdM", "usdk"})
    IN  [i \in 1..Len(amounts) |-> <<MoneyUnit(amounts[i])>>]

\* line 767: [word for word in action_words if word.lower() in title.lower()]
FoundActions(title) ==
    LET found == SelectSeq(action_words, LAMBDA w : HasClass(title, ActionClasses(w)))
    IN  [i \in 1..Len(found) |->
            <<Tok(found[i], IF found[i] = "raises" THEN 6 ELSE 8, "")>>]

\* ', '.join(parts)
RECURSIVE JoinComma(_)
JoinComma(parts) ==
    IF parts = <<>> THEN <<>>
    ELSE IF Len(parts) = 1 THEN parts[1]
    ELSE LET p == parts[1]
             last == p[Len(p)]
         IN  SubSeq(p, 1, Len(p) - 1) \o <<Tok(last.c, last.n + 1, ","), Sp(1)>>
             \o JoinComma(Tail(parts))

\* "Article focuses on "
TxtFocuses == <<Tok("Article", 7, ""), Sp(1), Tok("focuses", 7, ""), Sp(1), Tok("on", 2, ""), Sp(1)>>
\* "Involves financial amounts: "
TxtAmounts == <<Tok("Involves", 8, ""), Sp(1), Tok("financial", 9, ""), Sp(1),
                Tok("amounts:", 8, ""), Sp(1)>>
\* "Key developments include: "
TxtDevelopments == <<Tok("Key", 3, ""), Sp(1), Tok("developments", 12, ""), Sp(1),
                     Tok("include:", 8, ""), Sp(1)>>
\* "Content extraction failed - requires manual review for detailed analysis"
TxtFailed ==
    <<Tok("Content", 7, ""), Sp(1), Tok("extraction", 10, ""), Sp(1), Tok("failed", 6, ""),
      Sp(1), Tok("-", 1, ""), Sp(1), Tok("requires", 8, ""), Sp(1), Tok("manual", 6, ""),
      Sp(1), Tok("review", 6, ""), Sp(1), Tok("for", 3, ""), Sp(1), Tok("detailed", 8, ""),
      Sp(1), Tok("analysis", 8, "")>>

\* lines 753-769
SummaryParts(title) ==
    LET companies == Companies(title)
        money_matches == MoneyMatches(title)
        found_actions == FoundActions(title)
    IN  (IF companies # <<>>
         THEN <<TxtFocuses \o JoinComma(FirstN(companies, MaxCompanies))>> ELSE <<>>)
        \o (IF money_matches # <<>>
            THEN <<TxtAmounts \o JoinComma(money_matches)>> ELSE <<>>)
        \o (IF found_actions # <<>>
            THEN <<TxtDevelopments \o JoinComma(found_actions)>> ELSE <<>>)

\* lines 750-774
create_title_based_summary(title) ==
    LET summary_parts == SummaryParts(title)
        parts == IF summary_parts # <<>> THEN summary_parts ELSE <<TxtFailed>>
    IN  Join(<<Bullet(title)>> \o [i \in 1..Len(parts) |-> Bullet(parts[i])], <<NL>>)

-----------------------------------------------------------------------------
(* enhanced_simple_summary *)

MinSummaryWords == 20
MinSentenceChars == 30
MinSentenceWords == 6
MinKeyChars == 20
MaxKeySentences == 4
MaxKeyBullets == 3
FinancialWeight == 5
BusinessWeight == 3
EntityWeight == 2
KeywordWeight == 1

\* words that hold an amount in dollars, r'\$[\d,.]+'
DollarClasses == {"usd", "usdk", "usdM"}
\* words that hold a digit
DigitClasses == {"num", "date", "dec", "pct", "usd", "usdk", "usdM"}
\* the business_keywords of line 832 the vocabulary has
business_keywords == {"company", "platform"}

\* re.search(r'(<first>).*(<then>)', s): a word of the one class, and after
\* it a word of the other
Follows(s, first, then) ==
    \E i \in 1..Len(s) : \E j \in (i + 1)..Len(s) : s[i].c \in first /\ s[j].c \in then

\* lines 788-793: the financial_patterns that match; "usdk" is an amount with
\* a unit ($30k), "pct" a percentage, "finverb" a word like raised or funding,
\* "round" a word like seed or ipo
FinancialMatches(s) ==
    (IF HasClass(s, {"usdk"}) THEN 1 ELSE 0)
    + (IF HasClass(s, {"pct"}) THEN 1 ELSE 0)
    + (IF Follows(s, {"finverb"}, DollarClasses) THEN 1 ELSE 0)
    + (IF Follows(s, {"round"}, DollarClasses) THEN 1 ELSE 0)

\* lines 796-802: the business_patterns that match; "deal" is a word like
\* partnership or acquired, "bizverb" one like launched, "approved" one like
\* approved or cleared, "trend" one like growth or decline, "market" one like
\* market or industry
BusinessMatches(s) ==
    (IF Follows(s, {"deal"}, {"with"}) THEN 1 ELSE 0)
    + (IF HasClass(s, {"bizverb"}) THEN 1 ELSE 0)
    + (IF HasClass(s, {"approved"}) THEN 1 ELSE 0)
    + (IF Follows(s, {"trend"}, DigitClasses) THEN 1 ELSE 0)
    + (IF Follows(s, {"market"}, DollarClasses) THEN 1 ELSE 0)

\* line 806 under re.IGNORECASE: two letters or more, blanks, and a word that
\* begins with Inc, Corp, Ltd, ... ("corp")
HasCorporateName(s) ==
    \E i \in 3..Len(s) : \E j \in 1..(i - 2) :
        /\ s[i].c = "corp"
        /\ \A m \in (j + 1)..(i - 1) : IsSpace(s[m])
        /\ s[j].c \notin (DigitClasses \cup MarkClasses \cup {"sp", "nl", "pipe", "copy"})
        /\ s[j].e = "" /\ s[j].n >= 2

\* lines 805-809: the entity_patterns that match; "exec" is a word like CEO
\* or founder, "reg" one like FDA or SEC
EntityMatches(s) ==
    (IF HasCorporateName(s) THEN 1 ELSE 0)
    + (IF HasClass(s, {"exec"}) THEN 1 ELSE 0)
    + (IF HasClass(s, {"reg"}) THEN 1 ELSE 0)

\* lines 832-835
KeywordMatches(s) == Cardinality({k \in business_keywords : HasClass(s, {k})})

\* lines 814-835
Score(sentence) ==
    FinancialWeight * FinancialMatches(sentence)
    + BusinessWeight * BusinessMatches(sentence)
    + EntityWeight * EntityMatches(sentence)
    + KeywordWeight * KeywordMatches(sentence)

\* line 813
Eligible(sentence) ==
    Length(sentence) > MinSentenceChars /\ Len(WordsOf(sentence)) > MinSentenceWords

\* lines 811-838: the (sentence, score) pairs of the eligible sentences that
\* score above zero
ScoredSentences(sentences) ==
    LET eligible == SelectSeq(StripAll(sentences), Eligible)
        pairs == [i \in 1..Len(eligible) |->
                    [sentence |-> eligible[i], score |-> Score(eligible[i])]]
    IN  SelectSeq(pairs, LAMBDA x : x.score > 0)

\* a variant of line 841 that leaves the sentences in the order of the text
SortByScoreUnsorted(scored) == scored
\* line 841: sort(key=lambda x: x[1], reverse=True), a stable sort
RECURSIVE SortByScore(_)
SortByScore(scored) ==
    IF scored = <<>> THEN <<>>
    ELSE LET i == CHOOSE k \in 1..Len(scored) :
                    /\ \A j \in 1..Len(scored) : scored[j].score <= scored[k].score
                    /\ \A j \in 1..(k - 1) : scored[j].score < scored[k].score
         IN  <<scored[i]>>
             \o SortByScore(SubSeq(scored, 1, i - 1) \o SubSeq(scored, i + 1, Len(scored)))

\* content.replace('\n', ' ')
NewlinesToBlanks(s) == [i \in 1..Len(s) |-> IF s[i].c = "nl" THEN Sp(1) ELSE s[i]]

\* lines 782-846
KeySentences(content) ==
    LET sentences == SplitSentences(NewlinesToBlanks(content))
        ranked == FirstN(SortByScore(ScoredSentences(sentences)), MaxKeySentences)
    IN  IF ranked # <<>> THEN [i \in 1..Len(ranked) |-> ranked[i].sentence]
        ELSE SelectSeq(StripAll(FirstN(sentences, MaxKeySentences)),
                       LAMBDA x : Length(x) > MinSentenceChars)

\* lines 849-852
KeyBullets(content) ==
    LET kept == SelectSeq(StripAll(FirstN(KeySentences(content), MaxKeyBullets)),
                          LAMBDA x : Length(x) > MinKeyChars)
    IN  [i \in 1..Len(kept) |-> Bullet(kept[i])]

\* a variant of line 778 without the floor on the count of words
TooFewWordsNever(content) == content = <<>>
\* line 778
TooFewWords(content) == content = <<>> \/ Len(WordsOf(content)) < MinSummaryWords

\* a variant without the floor of lines 854-855
enhanced_summary_without_floor(content, title) ==
    IF TooFewWords(content) THEN create_title_based_summary(title)
    ELSE Join(KeyBullets(content), <<NL>>)

\* lines 776-857
enhanced_simple_summary(content, title) ==
    IF TooFewWords(content) THEN create_title_based_summary(title)
    ELSE LET bullets == KeyBullets(content)
         IN  IF bullets = <<>> THEN create_title_based_summary(title)
             ELSE Join(bullets, <<NL>>)

-----------------------------------------------------------------------------
(* The vocabulary of the inputs.  Every token value stands for one fixed     *)
(* string, so two equal token sequences are two equal strings.               *)

\* "Acme raised fresh funding from investors."  (41 characters, 6 words)
LnStory ==
    <<Tok("cap", 4, ""), Sp(1), Tok("finverb", 6, ""), Sp(1), W(5), Sp(1),
      Tok("finverb", 7, ""), Sp(1), W(4), Sp(1), Wd(10)>>
\* "The platform launched in ten markets today..."  (45 characters, 7 words)
LnLaunch ==
    <<W(3), Sp(1), Tok("platform", 8, ""), Sp(1), Tok("bizverb", 8, ""), Sp(1), W(2),
      Sp(1), W(3), Sp(1), Tok("market", 7, ""), Sp(1), Tok("w", 8, "...")>>
\* the story line between blanks, as an indented line of a page has it
LnStoryPadded == <<Sp(2)>> \o LnStory \o <<Sp(1)>>
\* "Read the story"  (14 characters, 3 words)
LnShort == <<W(4), Sp(1), W(3), Sp(1), W(5)>>
\* one word of 40 characters
LnRepeat == <<W(40)>>
\* "  We do it on a go.  "  (17 characters between the blanks, 6 words)
LnDense ==
    <<Sp(2), W(2), Sp(1), W(2), Sp(1), W(2), Sp(1), W(2), Sp(1), W(1), Sp(1),
      Wd(3), Sp(2)>>
\* "Subscribe to our daily briefing today"  (37 characters, 6 words)
LnSubscribe ==
    <<Tok("skip", 9, ""), Sp(1), W(2), Sp(1), W(3), Sp(1), W(5), Sp(1), W(8),
      Sp(1), W(5)>>
\* "Email the editors for more on this"  (34 characters, 7 words)
LnEmail ==
    <<Tok("skipC", 5, ""), Sp(1), W(3), Sp(1), W(7), Sp(1), W(3), Sp(1), W(4),
      Sp(1), W(2), Sp(1), W(4)>>
\* "March was a strong month for Acme."  (34 characters, 7 words)
LnMonth ==
    <<Tok("mon", 5, ""), Sp(1), W(3), Sp(1), W(1), Sp(1), W(6), Sp(1), W(5),
      Sp(1), W(3), Sp(1), Tok("cap", 5, ".")>>
\* "2024 12 03 10 30 00 15"  (22 characters, 7 words)
LnDate ==
    <<Tok("num", 4, ""), Sp(1), Tok("num", 2, ""), Sp(1), Tok("num", 2, ""), Sp(1),
      Tok("num", 2, ""), Sp(1), Tok("num", 2, ""), Sp(1), Tok("num", 2, ""), Sp(1),
      Tok("num", 2, "")>>
\* "12 likes on the story so far"  (28 characters, 7 words)
LnLikes ==
    <<Tok("num", 2, ""), Sp(1), Tok("cnt", 5, ""), Sp(1), W(2), Sp(1), W(3), Sp(1),
      W(5), Sp(1), W(2), Sp(1), W(3)>>
\* "Home | News | Tech | Health | More"  (34 characters, 9 words, 4 pipes)
LnMenu ==
    <<Tok("cap", 4, ""), Sp(1), Tok("pipe", 1, ""), Sp(1), Tok("cap", 4, ""), Sp(1),
      Tok("pipe", 1, ""), Sp(1), Tok("cap", 4, ""), Sp(1), Tok("pipe", 1, ""), Sp(1),
      Tok("cap", 6, ""), Sp(1), Tok("pipe", 1, ""), Sp(1), Tok("cap", 4, "")>>
\* "(c) 2024 Acme Media, all of it"  with the copyright sign (27 characters)
LnCopyright ==
    <<Tok("copy", 1, ""), Sp(1), Tok("num", 4, ""), Sp(1), Tok("cap", 4, ""), Sp(1),
      Tok("cap", 6, ","), Sp(1), W(3), Sp(1), W(2), Sp(1), W(2)>>
\* "12345"
LnDigits == <<Tok("num", 5, "")>>
\* a line of three blanks
LnBlank == <<Sp(3)>>

\* k copies of the word t with one blank between them
Run(k, t) == [i \in 1..(2 * k - 1) |-> IF i % 2 = 1 THEN t ELSE Sp(1)]

\* a sentence of 25 words and 150 characters
LnBody == Run(24, W(5)) \o <<Sp(1), Wd(6)>>
\* "Company ..., a sentence of 22 words and 156 characters
LnBody2 == <<Tok("company", 7, ""), Sp(1)>> \o Run(20, W(6)) \o <<Sp(1), Wd(8)>>
\* sixteen words of 1000 characters: 16015 characters on one line
LnHuge == Run(16, W(1000))
\* fifteen words of 998 characters: 14984 characters on one line
LnLong == Run(15, W(998))
\* seven words of 2130 characters: 14916 characters on one line
LnLong2 == Run(7, W(2130))
\* "Acme Corp signed a deal with Globex today."  (42 characters, 8 words)
LnDeal ==
    <<Tok("cap", 4, ""), Sp(1), Tok("corp", 4, ""), Sp(1), W(6), Sp(1), W(1), Sp(1),
      Tok("deal", 4, ""), Sp(1), Tok("with", 4, ""), Sp(1), Tok("cap", 6, ""), Sp(1), Wd(6)>>
\* "Go on now."  (10 characters, 3 words)
LnTiny == <<W(2), Sp(1), W(2), Sp(1), Wd(4)>>

\* the lines of a text
Lines(ls) == Join(ls, <<NL>>)

(* Pages: matches[i] are the texts of the elements the i-th content selector *)
(* finds, paragraphs[i] those the i-th paragraph strategy finds, all_text is  *)
(* soup.get_text(), all taken after the unwanted elements are removed.        *)

TxtSidebar == Lines(<<LnMenu, LnSubscribe, LnShort>>)
TxtArticle == Lines(<<LnStory, LnBody, LnLaunch, LnSubscribe, LnBody2>>)
TxtBoiler ==
    Lines(<<LnStory, LnMenu, LnSubscribe, LnEmail, LnCopyright, LnLikes, LnMonth, LnDate>>)

\* the texts of a page, its elements one after the other
RECURSIVE Flatten(_)
Flatten(groups) ==
    IF groups = <<>> THEN <<>> ELSE Head(groups) \o Flatten(Tail(groups))

\* text outside every selector and paragraph
TxtLoose ==
    Lines(<<LnMenu, LnBody, LnStory, LnSubscribe, LnBody2, LnEmail, LnLaunch,
            LnCopyright, LnDeal>>)

\* a page with these matches and paragraphs and that text outside of them
MakePage(matches, paragraphs, loose) ==
    [matches |-> matches,
     paragraphs |-> paragraphs,
     all_text |-> Lines(SelectSeq(Flatten(matches) \o Flatten(paragraphs) \o <<loose>>,
                                  LAMBDA t : t # <<>>))]

\* what the content selectors find: nothing, a small block, an article block
\* among sidebars, a long block that is boilerplate but for one line, that
\* block behind a smaller match of an earlier selector, a block longer
\* than the text scrape_article_content returns at most, and two blocks of
\* which the 15000th character lies in the last line: 15 characters into it,
\* and at the point up to where it repeats the first line
MatchChoices ==
    {<<>>,
     << <<LnShort>> >>,
     << <<TxtSidebar>>, <<TxtSidebar, TxtArticle, TxtSidebar>> >>,
     << <<TxtBoiler>> >>,
     << <<TxtSidebar>>, <<TxtBoiler, LnDeal>> >>,
     << <<LnHuge>> >>,
     << <<Lines(<<LnLong, LnStory>>)>> >>,
     << <<Lines(<<LnStory, LnLong2, LnStory \o <<Sp(1)>> \o LnDeal>>)>> >>}

\* what the paragraph strategies find
ParagraphChoices ==
    {<<>>,
     << <<LnStory>> >>,
     << <<LnShort>>, <<LnLaunch, LnSubscribe, LnBody, LnMonth>> >>,
     << <<LnLaunch, LnDeal>> >>,
     << <<LnStory, LnBody, LnLaunch, LnBody2>> >>}

\* the text outside of them: none, a line, an article, and boilerplate of
\* which one line survives the cleaning
LooseChoices == {<<>>, LnDeal, TxtLoose, Lines(<<TxtBoiler, TxtBoiler>>)}

Pages ==
    {MakePage(m, p, x) : m \in MatchChoices, p \in ParagraphChoices, x \in LooseChoices}

\* an article block among sidebars
PgArticle ==
    MakePage(<< <<TxtSidebar>>, <<TxtSidebar, TxtArticle, TxtSidebar>> >>,
             << <<LnStory, LnBody, LnLaunch, LnBody2>> >>, <<>>)
\* a long block that is boilerplate but for one line
PgBoiler == MakePage(<< <<TxtBoiler>> >>, << <<LnStory>> >>, <<>>)
\* an empty body
PgEmpty == MakePage(<<>>, <<>>, <<>>)

(* Titles *)

\* "HealthCo Raises $50M Series C"
TtlHealthCo ==
    <<Tok("camel", 8, ""), Sp(1), Tok("Raises", 6, ""), Sp(1), Tok("usdM", 4, ""), Sp(1),
      Tok("cap", 6, ""), Sp(1), Tok("letter", 1, "")>>
\* "Acme Corp launches platform"
TtlAcme ==
    <<Tok("cap", 4, ""), Sp(1), Tok("corp", 4, ""), Sp(1), Tok("launches", 8, ""), Sp(1),
      Tok("platform", 8, "")>>
\* "quarterly results"
TtlPlain == <<W(9), Sp(1), W(7)>>

Titles == {TtlHealthCo, TtlAcme, TtlPlain}

(* Provider responses: the text of choices[0].message.content *)

\* "Revenue grew 12% in the last quarter."  (37 characters, 7 words)
LnRevenue ==
    <<Tok("finverb", 7, ""), Sp(1), W(4), Sp(1), Tok("pct", 3, ""), Sp(1), W(2), Sp(1),
      W(3), Sp(1), W(4), Sp(1), Wd(8)>>
\* "Sales rose 12.5% in the third quarter overall"  (45 characters, 8 words)
LnNoStop ==
    <<Tok("finverb", 5, ""), Sp(1), W(4), Sp(1), Tok("dec", 5, ""), Sp(1), W(2), Sp(1),
      W(3), Sp(1), W(5), Sp(1), W(7), Sp(1), W(7)>>
\* "Revenue grew 12%."  (17 characters, 3 words)
LnGrew == <<Tok("finverb", 7, ""), Sp(1), W(4), Sp(1), Tok("pct", 4, ".")>>
\* "1. ", "2. " and "- "
Num1 == <<Tok("num1", 2, "."), Sp(1)>>
Num2 == <<Tok("num2", 2, "."), Sp(1)>>
Dash == <<Tok("dash", 1, ""), Sp(1)>>
\* "* "
Star == <<Tok("star", 1, ""), Sp(1)>>

\* three well-formed bullets
RspBullets == Lines(<<Dash \o LnStory, Dash \o LnRevenue, Dash \o LnDeal>>)
\* "Here's a summary:\n1. Revenue grew 12%.\n2. ."
RspPreamble == Lines(<<PfxHeres, Num1 \o LnGrew, Num2 \o <<Tok("stop", 1, ".")>> >>)
\* two sentences of prose on two lines, the first broken across lines
RspProse == Lines(<<SubSeq(LnStory, 1, 5), SubSeq(LnStory, 7, 11) \o <<Sp(1)>> \o LnDeal>>)
\* two bullets that hold a full stop but do not end with one
RspNoStop == Lines(<<Dash \o LnNoStop, Dash \o LnNoStop \o <<Sp(1), W(3)>> >>)
\* "Globex raised funding."  (22 characters, 3 words)
LnTerse == <<Tok("cap", 6, ""), Sp(1), W(6), Sp(1), Wd(8)>>
\* one marker line long enough between two of three words
RspTerse == Lines(<<Dash \o LnTerse, Dash \o LnStory, Dash \o LnTerse>>)
\* one good sentence, too short a summary
RspShort == SubSeq(LnStory, 1, 7) \o <<Sp(1), Wd(5)>>
\* an empty completion
RspEmpty == <<>>

\* "• Revenue up\n• Costs down\n• Margin wider\n• Cash strong\n• Outlook good.":
\* five marker lines of two words, the last with the only full stop
RspFiveLines ==
    Lines(<<BulletMark \o <<W(7), Sp(1), W(2)>>, BulletMark \o <<W(5), Sp(1), W(4)>>,
            BulletMark \o <<W(6), Sp(1), W(5)>>, BulletMark \o <<W(4), Sp(1), W(6)>>,
            BulletMark \o <<W(7), Sp(1), Wd(5)>> >>)

Responses ==
    {RspBullets, RspPreamble, RspProse, RspNoStop, RspTerse, RspShort, RspEmpty,
     RspFiveLines}

(* Texts handed to generate_summary_free *)

\* the text scrape_article_content returns for the article page
TxtCleanArticle == Lines(<<LnStory, LnBody, LnLaunch, LnBody2>>)
\* seven short sentences: 21 words, 76 characters
TxtChopped == Join(<<LnTiny, LnTiny, LnTiny, LnTiny, LnTiny, LnTiny, LnTiny>>, <<Sp(1)>>)

\* "Acme Corp raised $30 million in Series B funding to expand operations"
\* (69 characters, 12 words)
TxtRaised ==
    <<Tok("cap", 4, ""), Sp(1), Tok("corp", 4, ""), Sp(1), Tok("finverb", 6, ""), Sp(1),
      Tok("usd", 3, ""), Sp(1), W(7), Sp(1), W(2), Sp(1), Tok("round", 6, ""), Sp(1),
      W(1), Sp(1), Tok("finverb", 7, ""), Sp(1), W(2), Sp(1), W(6), Sp(1), W(10)>>
\* the sentence with its full stop (70 characters)
LnRaised == SubSeq(TxtRaised, 1, Len(TxtRaised) - 1) \o <<Wd(11)>>
\* the sentence with " across Europe and Asia over the next two years." after
\* it (21 words)
LnRaisedLong ==
    TxtRaised \o <<Sp(1), W(6), Sp(1), Tok("cap", 6, ""), Sp(1), W(3), Sp(1),
                   Tok("cap", 4, ""), Sp(1), W(4), Sp(1), W(3), Sp(1), W(4), Sp(1),
                   W(3), Sp(1), Wd(6)>>

\* ten words, 99 characters, between two blanks and a line feed: 102
\* characters before trimming
TxtBelowGate == <<Sp(2)>> \o Run(10, W(9)) \o <<NL>>
\* ten words, 100 characters
TxtAtGate == Run(9, W(9)) \o <<Sp(1), W(10)>>

SummaryContents ==
    {<<>>, <<Sp(3), NL>>, LnStory, Lines(<<LnLaunch, LnDeal>>), TxtCleanArticle,
     LnBody, Lines(<<LnBody, LnDeal, LnRevenue>>), TxtChopped, LnRaised, LnRaisedLong,
     TxtBelowGate, TxtAtGate}

-----------------------------------------------------------------------------
(* Variables *)

VARIABLES
    pc,                 \* where the run is
    groq_api_key,       \* self.groq_api_key is set
    notion_ok,          \* self.notion_token and self.notion_database_id are set
    src,                \* run_daily_aggregation: index of the source in hand
    fetched,            \* len(articles) of the source in hand
    art,                \* index i of the article in hand
    article,            \* the article in hand
    all_articles,       \* the list run_daily_aggregation returns
    source_stats,       \* source_stats, by source index
    notion_i,           \* index of the article being sent to Notion
    successful_notion,
    failed_notion,
    submitted,          \* the indices add_to_notion was called for, in order
    attempt,            \* scrape_article_content: the loop index of line 328
    page,               \* the parsed page
    fetch_delays,       \* the waits of line 338 so far, in seconds
    content,            \* the text scrape_article_content returned
    title,              \* generate_summary_free: its title argument
    groq_attempt,       \* try_groq_free: the loop index of line 635
    groq_delays,        \* the waits of line 653 so far, in seconds
    response,           \* try_groq_free: the completion last received
    groq_return,        \* what try_groq_free returned (<<>> is None)
    summary,            \* what generate_summary_free returned
    trace,              \* what was done for the article in hand, in order
    clean_in,           \* the text handed to clean_extracted_content
    clean_out,          \* what successive applications of it returned
    summary_text,       \* the text handed to format_ai_summary
    formatted           \* what format_ai_summary returned

batchVars == <<src, fetched, art, article, all_articles, source_stats, notion_i,
               successful_notion, failed_notion, submitted, notion_ok>>
scrapeVars == <<attempt, page, fetch_delays>>
gsVars == <<title, groq_attempt, groq_delays, response, groq_return, summary,
            groq_api_key>>
cleanVars == <<clean_in, clean_out>>
formatVars == <<summary_text, formatted>>
vars == <<pc, batchVars, scrapeVars, content, gsVars, trace, cleanVars, formatVars>>

\* self.sources, one feed of each category
Sources == <<[category |-> "Tech", name |-> "techcrunch.com"],
             [category |-> "Health", name |-> "medcitynews.com"]>>

\* the values the variables of a part have while that part is not running
NoArticle == [title |-> <<>>, url_ok |-> TRUE, category |-> "", summary |-> <<>>]
IdleBatch ==
    /\ src = 1 /\ fetched = 0 /\ art = 0
    /\ article = NoArticle
    /\ all_articles = <<>> /\ source_stats = <<>>
    /\ notion_i = 0 /\ successful_notion = 0 /\ failed_notion = 0
    /\ submitted = <<>>
IdleScrape == attempt = 0 /\ page = PgEmpty /\ fetch_delays = <<>>
IdleSummary ==
    /\ title = <<>> /\ groq_attempt = 0 /\ groq_delays = <<>> /\ response = <<>>
    /\ groq_return = <<>> /\ summary = <<>>
IdleClean == clean_in = <<>> /\ clean_out = <<>>
IdleFormat == summary_text = <<>> /\ formatted = <<>>

-----------------------------------------------------------------------------
(* generate_summary_free and try_groq_free, a step for every request *)

MinSummaryContent == 50
MinGroqContent == 100
MinGroqSummary == 50
MinAcceptedSummary == 30
GroqAttempts == 2
GroqRetryDelay == 3

\* except <handler>: catches the exception
Catches(handler, exc) == handler = "Exception" \/ handler = exc
\* line 650
GroqInnerCatches(exc) == Catches("Exception", exc)
\* line 655
GroqOuterCatches(exc) == Catches("Exception", exc)
\* a variant of line 744 that catches the errors of requests only
GsCatchesRequests(exc) == Catches("RequestException", exc)
\* line 744
GsCatches(exc) == Catches("Exception", exc)

\* line 724
ContentMissing(c) == c = <<>> \/ Length(Strip(c)) < MinSummaryContent
\* a variant of line 590 that measures the content as it stands
GroqSkipsUntrimmed(c) == c = <<>> \/ Length(c) < MinGroqContent
\* line 590
GroqSkipsContent(c) == c = <<>> \/ Length(Strip(c)) < MinGroqContent
\* line 644
GroqAccepts(formatted_summary) ==
    formatted_summary # <<>> /\ Length(Strip(formatted_summary)) > MinGroqSummary
\* a variant of line 731 with the comparison turned around
GsAcceptsShort(s) == s # <<>> /\ Length(Strip(s)) < MinAcceptedSummary
\* lines 731, 736, 741
GsAccepts(s) == s # <<>> /\ Length(Strip(s)) > MinAcceptedSummary

\* lines 718-726: the title-based summary for a missing content, else on to
\* the providers
GsStart ==
    /\ pc = "gs_start"
    /\ IF ContentMissing(content)
       THEN /\ summary' = create_title_based_summary(title)
            /\ trace' = Append(trace, "title_floor")
            /\ pc' = "gs_return"
       ELSE /\ pc' = "groq"
            /\ UNCHANGED <<summary, trace>>
    /\ UNCHANGED <<batchVars, scrapeVars, content, title, groq_attempt, groq_delays,
                   response, groq_return, groq_api_key, cleanVars, formatVars>>

\* lines 585-592 and 731: try_groq_free returns None without a request when
\* there is no key or the content is short
GroqGate ==
    /\ pc = "groq"
    /\ groq_attempt' = 0
    /\ groq_return' = <<>>
    /\ IF ~groq_api_key \/ GroqSkipsContent(content)
       THEN /\ pc' = "openai"
            /\ trace' = Append(trace, "groq_skipped")
       ELSE /\ pc' = "groq_post"
            /\ UNCHANGED trace
    /\ UNCHANGED <<batchVars, scrapeVars, content, title, groq_delays, response,
                   summary, groq_api_key, cleanVars, formatVars>>

\* a variant of line 635 with one more turn of the loop
GroqLoopGoesOnLonger(k) == k + 1 < GroqAttempts + 1
\* line 635: for attempt in range(2) has another turn after turn k
GroqLoopGoesOn(k) == k + 1 < GroqAttempts

\* where an exception raised inside the loop of line 635 ends up
AfterGroqException(exc) ==
    IF GroqInnerCatches(exc)
    THEN /\ groq_attempt' = groq_attempt + 1
         /\ trace' = IF groq_attempt = 0
                     THEN trace \o <<"groq_exception", "groq_sleep">>
                     ELSE Append(trace, "groq_exception")
         /\ groq_delays' = IF groq_attempt = 0 THEN Append(groq_delays, GroqRetryDelay)
                           ELSE groq_delays
         /\ pc' = IF GroqLoopGoesOn(groq_attempt) THEN "groq_post" ELSE "openai"
    ELSE /\ groq_attempt' = groq_attempt
         /\ groq_delays' = groq_delays
         /\ trace' = Append(trace, "groq_exception")
         /\ pc' = IF GroqOuterCatches(exc) THEN "openai"
                  ELSE IF GsCatches(exc) THEN "fallback" ELSE "raised"

\* lines 635-653 and 731-732: one request to the provider.  It ends in an
\* exception of requests, in a status other than 200, in a body without the
\* expected fields, or in a completion
GroqPost(responses) ==
    /\ pc = "groq_post"
    /\ \/ \E exc \in {"RequestException", "KeyError"} :
            /\ AfterGroqException(exc)
            /\ UNCHANGED <<response, groq_return, summary>>
       \/ /\ groq_attempt' = groq_attempt + 1
          /\ trace' = Append(trace, "groq_status")
          /\ pc' = IF GroqLoopGoesOn(groq_attempt) THEN "groq_post" ELSE "openai"
          /\ UNCHANGED <<groq_delays, response, groq_return, summary>>
       \/ \E r \in responses :
            LET formatted_summary == format_ai_summary(r)
            IN  /\ response' = r
                /\ groq_delays' = groq_delays
                /\ IF GroqAccepts(formatted_summary)
                   THEN /\ groq_return' = formatted_summary
                        /\ groq_attempt' = groq_attempt
                        /\ trace' = Append(trace, "groq_accepted")
                        /\ IF GsAccepts(formatted_summary)
                           THEN summary' = formatted_summary /\ pc' = "gs_return"
                           ELSE summary' = summary /\ pc' = "openai"
                   ELSE /\ groq_attempt' = groq_attempt + 1
                        /\ trace' = Append(trace, "groq_rejected")
                        /\ pc' = IF GroqLoopGoesOn(groq_attempt) THEN "groq_post"
                                 ELSE "openai"
                        /\ UNCHANGED <<groq_return, summary>>
    /\ UNCHANGED <<batchVars, scrapeVars, content, title, groq_api_key, cleanVars, formatVars>>

\* lines 735 and 744-745: the class has no method try_openai_free, the call
\* raises AttributeError and the handler of line 744 ends the try block
TryOpenAi ==
    /\ pc = "openai"
    /\ trace' = Append(trace, "openai_attribute_error")
    /\ pc' = IF GsCatches("AttributeError") THEN "fallback" ELSE "raised"
    /\ UNCHANGED <<batchVars, scrapeVars, content, gsVars, cleanVars, formatVars>>

\* line 748
Fallback ==
    /\ pc = "fallback"
    /\ summary' = enhanced_simple_summary(content, title)
    /\ trace' = Append(trace, "fallback")
    /\ pc' = "gs_return"
    /\ UNCHANGED <<batchVars, scrapeVars, content, title, groq_attempt, groq_delays,
                   response, groq_return, groq_api_key, cleanVars, formatVars>>

InitSummary ==
    /\ pc = "gs_start"
    /\ groq_api_key \in BOOLEAN
    /\ notion_ok = FALSE
    /\ content \in SummaryContents
    /\ title \in Titles
    /\ groq_attempt = 0 /\ groq_delays = <<>> /\ response = <<>>
    /\ groq_return = <<>> /\ summary = <<>>
    /\ trace = <<>>
    /\ IdleBatch /\ IdleScrape /\ IdleClean /\ IdleFormat

NextSummary == GsStart \/ GroqGate \/ GroqPost(Responses) \/ TryOpenAi \/ Fallback

SpecSummary == InitSummary /\ [][NextSummary]_vars

-----------------------------------------------------------------------------
(* run_daily_aggregation, with scrape_article_content a step for every request *)

MaxArticles == 2
max_retries == 3
\* random.uniform(2, 5), in whole seconds
MinFetchDelay == 2
MaxFetchDelay == 5
FetchDelays == MinFetchDelay..MaxFetchDelay
MinScraped == 50

BatchTitles == {TtlHealthCo}
BatchPages == {PgArticle, PgBoiler, PgEmpty}
BatchDelays == {MinFetchDelay, MaxFetchDelay}
BatchResponses == {RspBullets, RspShort}

\* the articles fetched so far
TotalFetched ==
    LET RECURSIVE Sum(_)
        Sum(k) == IF k = 0 THEN 0 ELSE source_stats[k].fetched + Sum(k - 1)
    IN  Sum(Len(source_stats))

\* lines 1007-1010 and the loops of lines 970 and 984: on to the next
\* article of the source, or to the next source; the locals of the iteration
\* are dead from here on
NextArticle ==
    /\ IF art < fetched
       THEN pc' = "article" /\ art' = art + 1 /\ src' = src
       ELSE pc' = "source" /\ art' = art /\ src' = src + 1
    /\ article' = NoArticle
    /\ attempt' = 0 /\ page' = PgEmpty /\ fetch_delays' = <<>> /\ content' = <<>>
    /\ title' = <<>> /\ groq_attempt' = 0 /\ groq_delays' = <<>> /\ response' = <<>>
    /\ groq_return' = <<>> /\ summary' = <<>>
    /\ trace' = <<>>

\* lines 970-982: fetch_rss_articles returns the recent articles of the next
\* source, an empty list when the feed cannot be read
StartSource ==
    /\ pc = "source"
    /\ src <= Len(Sources)
    /\ \E n \in 0..(MaxArticles - TotalFetched) :
        /\ fetched' = n
        /\ source_stats' = Append(source_stats,
                                  [fetched |-> n, processed |-> 0, successful |-> 0])
        /\ IF n = 0 THEN pc' = "source" /\ src' = src + 1 /\ art' = art
           ELSE pc' = "article" /\ src' = src /\ art' = 1
    /\ UNCHANGED <<article, all_articles, notion_i, successful_notion, failed_notion, submitted,
                   notion_ok, scrapeVars, content, gsVars, trace, cleanVars, formatVars>>

\* lines 984-990 and 318-327: the article is given its category and
\* scrape_article_content is entered; it returns "" for a URL that does not
\* start with http
BeginScrape ==
    /\ pc = "article"
    /\ \E t \in BatchTitles, ok \in BOOLEAN :
        /\ article' = [title |-> t, url_ok |-> ok,
                       category |-> Sources[src].category, summary |-> <<>>]
        /\ IF ok THEN pc' = "fetch" /\ content' = content
           ELSE pc' = "scraped" /\ content' = <<>>
    /\ UNCHANGED <<src, fetched, art, all_articles, source_stats, notion_i,
                   successful_notion, failed_notion, submitted, notion_ok, scrapeVars, gsVars,
                   trace, cleanVars, formatVars>>

\* a variant that gives up one attempt later
LastAttemptLate(k) == k = max_retries
\* line 336: if attempt == max_retries - 1
LastAttempt(k) == k = max_retries - 1

\* lines 328-338 and 462-464: one request for the page.  After the last
\* failed attempt the exception is raised again and the handler of line 462
\* returns ""
FetchPage(pages, delays) ==
    /\ pc = "fetch"
    /\ \/ \E pg \in pages :
            /\ page' = pg
            /\ trace' = Append(trace, "fetch_ok")
            /\ pc' = "extract"
            /\ UNCHANGED <<attempt, fetch_delays, content>>
       \/ /\ IF LastAttempt(attempt)
             THEN /\ trace' = Append(trace, "fetch_failed")
                  /\ content' = <<>>
                  /\ pc' = "scraped"
                  /\ UNCHANGED <<attempt, fetch_delays>>
             ELSE /\ trace' = trace \o <<"fetch_failed", "fetch_sleep">>
                  /\ \E delay \in delays :
                        fetch_delays' = Append(fetch_delays, delay)
                  /\ attempt' = attempt + 1
                  /\ UNCHANGED <<pc, content>>
          /\ UNCHANGED page
    /\ UNCHANGED <<batchVars, gsVars, cleanVars, formatVars>>

\* lines 340-460
ExtractPage ==
    /\ pc = "extract"
    /\ content' = ScrapedContent(page)
    /\ trace' = Append(trace, "extract")
    /\ pc' = "scraped"
    /\ UNCHANGED <<batchVars, scrapeVars, gsVars, cleanVars, formatVars>>

\* a variant of line 993 that only asks for a string
ContentAlwaysUsable(c) == Len(c) >= 0
\* line 993
ContentUsable(c) == c # <<>> /\ Length(Strip(c)) > MinScraped
\* line 997
SummaryUsable(s) == s # <<>> /\ Length(Strip(s)) > MinAcceptedSummary

\* a variant that counts every article as successful
CountSuccessful(field) ==
    [source_stats EXCEPT ![src] = [@ EXCEPT !.successful = @ + 1]]
\* one more in a field of the statistics of the source in hand
Count(field) ==
    [source_stats EXCEPT ![src] =
        IF field = "processed" THEN [@ EXCEPT !.processed = @ + 1]
        ELSE [@ EXCEPT !.successful = @ + 1]]

\* lines 991-995 and 1004-1010: the article counts as processed; with enough
\* content generate_summary_free is called, else the article is dropped
AfterScrape ==
    /\ pc = "scraped"
    /\ source_stats' = Count("processed")
    /\ IF ContentUsable(content)
       THEN /\ pc' = "gs_start"
            /\ title' = article.title
            /\ UNCHANGED <<src, art, article, scrapeVars, content, groq_attempt,
                           groq_delays, response, groq_return, summary, trace>>
       ELSE NextArticle
    /\ UNCHANGED <<fetched, all_articles, notion_i, successful_notion,
                   failed_notion, submitted, notion_ok, groq_api_key, cleanVars, formatVars>>

\* lines 995-1003 and 1007-1010
AfterSummary ==
    /\ pc = "gs_return"
    /\ IF SummaryUsable(summary)
       THEN /\ all_articles' = Append(all_articles, [article EXCEPT !.summary = summary])
            /\ source_stats' = Count("successful")
       ELSE UNCHANGED <<all_articles, source_stats>>
    /\ NextArticle
    /\ UNCHANGED <<fetched, notion_i, successful_notion, failed_notion, submitted, notion_ok,
                   groq_api_key, cleanVars, formatVars>>

\* lines 861-942: what add_to_notion returns; outcome tells how the sink
\* answered the request and the reduced retry
add_to_notion(a, outcome) ==
    /\ notion_ok
    /\ a.url_ok
    /\ outcome \in {"ok", "validation_retry_ok"}

\* "raised" is an exception that leaves add_to_notion, from the lines before
\* its try block
NotionOutcomes ==
    {"ok", "error", "validation_retry_ok", "validation_retry_error", "exception",
     "raised"}

\* a variant of line 1044 that catches the errors of requests only
NotionLoopCatchesRequests(exc) == Catches("RequestException", exc)
\* line 1044
NotionLoopCatches(exc) == Catches("Exception", exc)

\* lines 1018-1033 and 1055-1071: the sources are done
FinishSources ==
    /\ pc = "source"
    /\ src > Len(Sources)
    /\ IF notion_ok /\ all_articles # <<>>
       THEN pc' = "notion" /\ notion_i' = 1
       ELSE pc' = "done" /\ notion_i' = notion_i
    /\ UNCHANGED <<src, fetched, art, article, all_articles, source_stats,
                   successful_notion, failed_notion, submitted, notion_ok, scrapeVars,
                   content, gsVars, trace, cleanVars, formatVars>>

\* lines 1036-1048: one article is sent to Notion
NotionAdd ==
    /\ pc = "notion"
    /\ submitted' = Append(submitted, notion_i)
    /\ \E outcome \in NotionOutcomes :
        IF outcome = "raised" /\ ~NotionLoopCatches("AttributeError")
        THEN /\ pc' = "raised"
             /\ UNCHANGED <<notion_i, successful_notion, failed_notion>>
        ELSE /\ IF add_to_notion(all_articles[notion_i], outcome)
                THEN successful_notion' = successful_notion + 1 /\ UNCHANGED failed_notion
                ELSE failed_notion' = failed_notion + 1 /\ UNCHANGED successful_notion
             /\ notion_i' = notion_i + 1
             /\ pc' = IF notion_i < Len(all_articles) THEN "notion" ELSE "done"
    /\ UNCHANGED <<src, fetched, art, article, all_articles, source_stats, notion_ok,
                   scrapeVars, content, gsVars, trace, cleanVars, formatVars>>

Init ==
    /\ pc = "source"
    /\ groq_api_key \in BOOLEAN
    /\ notion_ok \in BOOLEAN
    /\ content = <<>>
    /\ trace = <<>>
    /\ IdleBatch /\ IdleScrape /\ IdleSummary /\ IdleClean /\ IdleFormat

Next ==
    \/ StartSource \/ BeginScrape \/ FetchPage(BatchPages, BatchDelays) \/ ExtractPage \/ AfterScrape
    \/ GsStart \/ GroqGate \/ GroqPost(BatchResponses) \/ TryOpenAi \/ Fallback
    \/ AfterSummary \/ FinishSources \/ NotionAdd

Spec == Init /\ [][Next]_vars

-----------------------------------------------------------------------------
(* scrape_article_content on its own, for a URL that starts with http *)

InitScrape ==
    /\ pc = "fetch"
    /\ groq_api_key = FALSE /\ notion_ok = FALSE
    /\ content = <<>> /\ trace = <<>>
    /\ IdleBatch /\ IdleScrape /\ IdleSummary /\ IdleClean /\ IdleFormat

NextScrape == FetchPage(Pages, FetchDelays) \/ ExtractPage

SpecScrape == InitScrape /\ [][NextScrape]_vars

-----------------------------------------------------------------------------
(* clean_extracted_content applied to a text, and to its own result *)

MaxCleanLines == 3

CleanLinePalette ==
    {LnStory, LnStoryPadded, LnLaunch, LnShort, LnDense, LnSubscribe, LnEmail,
     LnMonth, LnDate, LnLikes, LnMenu, LnCopyright, LnDigits, LnBlank, LnRepeat}

CleanInputs ==
    {<<>>} \cup
    {Join(ls, <<NL>>) :
        ls \in UNION {[1..k -> CleanLinePalette] : k \in 1..MaxCleanLines}}

ApplyClean ==
    /\ pc = "clean"
    /\ Len(clean_out) < 2
    /\ clean_out' = Append(clean_out,
            clean_extracted_content(IF clean_out = <<>> THEN clean_in
                                    ELSE clean_out[Len(clean_out)]))
    /\ UNCHANGED <<pc, batchVars, scrapeVars, content, gsVars, trace, clean_in,
                   formatVars>>

InitClean ==
    /\ pc = "clean"
    /\ clean_in \in CleanInputs
    /\ clean_out = <<>>
    /\ groq_api_key = FALSE /\ notion_ok = FALSE
    /\ content = <<>> /\ trace = <<>>
    /\ IdleBatch /\ IdleScrape /\ IdleSummary /\ IdleFormat

NextClean == ApplyClean

SpecClean == InitClean /\ [][NextClean]_vars


-----------------------------------------------------------------------------
(* format_ai_summary applied to a completion *)

\* a line of 50 words that ends with a full stop
LnFifty == Run(49, W(3)) \o <<Sp(1), Wd(4)>>
\* two sentences on one line
LnTwoSentences == LnStory \o <<Sp(1)>> \o LnDeal

\* the known preambles of the vocabulary
Preambles == {PfxHeres, PfxSummary}
\* the markers of the first marker line
Markers == {BulletMark, Dash, Star, Num1}
\* lines that pass the tests of lines 697-700
ValidLines == {LnStory, LnRevenue, LnDeal, LnNoStop, LnTwoSentences, LnFifty}
\* lines of fewer than 5 words: ".", "Revenue grew 12%.", "Globex raised funding."
ShortLines == {<<Tok("stop", 1, ".")>>, LnGrew, LnTerse}

\* a preamble line and two marker lines, the valid one first or last; a
\* numbered list goes on with "2."
MarkedText(preamble, marker, valid, short, valid_first) ==
    LET second == IF marker = Num1 THEN Num2 ELSE marker
    IN  IF valid_first
        THEN Lines(<<preamble, marker \o valid, second \o short>>)
        ELSE Lines(<<preamble, marker \o short, second \o valid>>)

\* "Sales rose 12.5% in the third quarter overall,"
LnComma == SubSeq(LnNoStop, 1, Len(LnNoStop) - 1) \o <<Tok("w", 8, ",")>>
\* "The platform launched in 2.5 markets today" and the one character of an
\* ellipsis, U+2026, written "hellip" as the ending of the last word
LnHellip ==
    <<W(3), Sp(1), Tok("platform", 8, ""), Sp(1), Tok("bizverb", 8, ""), Sp(1), W(2),
      Sp(1), Tok("dec", 3, ""), Sp(1), Tok("market", 7, ""), Sp(1), Tok("w", 6, "hellip")>>
\* texts with a line or a sentence that trails off: a sentence that ends
\* with three full stops, on its own and as a marker line, a marker line
\* that ends with a comma, and one that ends with the ellipsis character
TrailingInputs ==
    {LnLaunch,
     Lines(<<Dash \o LnLaunch, Dash \o LnStory, Dash \o LnDeal>>),
     Lines(<<Dash \o LnComma, Dash \o LnStory>>),
     Lines(<<Dash \o LnHellip, Dash \o LnStory>>)}

FormatInputs ==
    {MarkedText(p, m, v, sh, o) :
        p \in Preambles, m \in Markers, v \in ValidLines, sh \in ShortLines,
        o \in BOOLEAN}
    \cup Responses \cup TrailingInputs

ApplyFormat ==
    /\ pc = "format"
    /\ formatted' = format_ai_summary(summary_text)
    /\ pc' = "formatted"
    /\ UNCHANGED <<batchVars, scrapeVars, content, gsVars, trace, cleanVars,
                   summary_text>>

InitFormat ==
    /\ pc = "format"
    /\ summary_text \in FormatInputs
    /\ formatted = <<>>
    /\ groq_api_key = FALSE /\ notion_ok = FALSE
    /\ content = <<>> /\ trace = <<>>
    /\ IdleBatch /\ IdleScrape /\ IdleSummary /\ IdleClean

NextFormat == ApplyFormat

SpecFormat == InitFormat /\ [][NextFormat]_vars

-----------------------------------------------------------------------------
(* enhanced_simple_summary applied to a text of sentences *)

MaxSentences == 4

\* sentences of seven words that match one pattern of one kind only: a
\* percentage, a word like launched, a word like CEO, the keyword company,
\* the keyword platform, and nothing
SnFinancial ==
    <<W(5), Sp(1), W(4), Sp(1), Tok("pct", 3, ""), Sp(1), W(2), Sp(1), W(3), Sp(1), W(4),
      Sp(1), Wd(8)>>
SnBusiness ==
    <<W(3), Sp(1), W(5), Sp(1), Tok("bizverb", 8, ""), Sp(1), W(2), Sp(1), W(3), Sp(1),
      W(7), Sp(1), Wd(6)>>
SnEntity ==
    <<W(3), Sp(1), Tok("exec", 3, ""), Sp(1), W(5), Sp(1), W(2), Sp(1), W(3), Sp(1), W(6),
      Sp(1), Wd(6)>>
SnCompany ==
    <<W(3), Sp(1), Tok("company", 7, ""), Sp(1), W(4), Sp(1), W(2), Sp(1), W(3), Sp(1),
      W(5), Sp(1), Wd(7)>>
SnPlatform ==
    <<W(3), Sp(1), Tok("platform", 8, ""), Sp(1), W(4), Sp(1), W(2), Sp(1), W(3), Sp(1),
      W(5), Sp(1), Wd(7)>>
SnPlain ==
    <<W(3), Sp(1), W(6), Sp(1), W(4), Sp(1), W(2), Sp(1), W(3), Sp(1), W(5), Sp(1), Wd(9)>>
\* a percentage in a sentence of 48 characters and five words, too few to
\* be scored
SnFinancialShort ==
    <<W(5), Sp(1), W(4), Sp(1), Tok("pct", 3, ""), Sp(1), W(2), Sp(1), Wd(30)>>

SentencePalette ==
    {SnFinancial, SnBusiness, SnEntity, SnCompany, SnPlatform, SnPlain, SnFinancialShort}

\* texts of 1 to MaxSentences sentences with a blank between them
FallbackContents ==
    {Join(ss, <<Sp(1)>>) :
        ss \in UNION {[1..k -> SentencePalette] : k \in 1..MaxSentences}}

InitFallback ==
    /\ pc = "fallback"
    /\ content \in FallbackContents
    /\ title = TtlPlain
    /\ groq_api_key = FALSE /\ notion_ok = FALSE
    /\ groq_attempt = 0 /\ groq_delays = <<>> /\ response = <<>>
    /\ groq_return = <<>> /\ summary = <<>>
    /\ trace = <<>>
    /\ IdleBatch /\ IdleScrape /\ IdleClean /\ IdleFormat

NextFallback == Fallback

SpecFallback == InitFallback /\ [][NextFallback]_vars

-----------------------------------------------------------------------------
(* Properties.  What is said of the trace is said of the article in hand.    *)

\* the i-th event of the trace is e
At(i, e) == i \in 1..Len(trace) /\ trace[i] = e
\* e is in the trace
Did(e) == \E i \in 1..Len(trace) : trace[i] = e
\* the last event of the trace is e
Last(e) == At(Len(trace), e)

\* the bullets of a summary: the texts between one bullet marker at the
\* start of a line and the next
BulletsOf(text) ==
    LET starts == {i \in 1..Len(text) :
                     text[i].c = "bullet" /\ (i = 1 \/ text[i - 1].c = "nl")}
        next(i) == CHOOSE j \in (starts \cup {Len(text) + 2}) :
                     j > i /\ \A m \in starts : m > i => j <= m
    IN  {SubSeq(text, i + 2, next(i) - 2) : i \in starts}

\* the count of words of a text is within the bounds of a bullet
WordsInBounds(b) ==
    Len(WordsOf(b)) >= MinBulletWords /\ Len(WordsOf(b)) <= MaxBulletWords
\* the text ends with '.', '!' or '?' and does not trail off
EndsWithStop(b) == b # <<>> /\ b[Len(b)].e \in {".", "!", "?"}

(* generate_summary_free, under SpecSummary *)

\* C1: generate_summary_free never returns an empty summary: what it returns
\* holds at least one bullet with a text, and for a content that is empty or
\* blank and a title that is not, a bullet that is the title.
FloorGuarantee ==
    pc = "gs_return" =>
        /\ \E b \in BulletsOf(summary) : b # <<>>
        /\ (Strip(content) = <<>> /\ title # <<>>) => title \in BulletsOf(summary)

\* C1, reached: a summary was returned for a content of blanks only
FloorReached ==
    /\ pc = "gs_return"
    /\ content # <<>> /\ Strip(content) = <<>>
    /\ Last("title_floor")

\* C2: once the output of a provider passed its quality check nothing is
\* done after it: no other provider is called, the fallback does not run,
\* and the summary returned is that provider's formatted output.
AcceptedIsFinal ==
    \A i \in 1..Len(trace) :
        trace[i] = "groq_accepted" =>
            /\ i = Len(trace)
            /\ pc = "gs_return"
            /\ summary = groq_return
            /\ summary = format_ai_summary(response)

\* C2, reached: the second request to Groq was accepted after the first failed
AcceptedReached ==
    /\ pc = "gs_return"
    /\ Len(trace) = 2 /\ At(1, "groq_status") /\ At(2, "groq_accepted")

\* C3: the providers are tried in the order Groq, OpenAI, Hugging Face, and
\* the fallback runs only after each of the three was attempted or skipped.
GroqTried == \E i \in 1..Len(trace) : trace[i] \in
    {"groq_skipped", "groq_exception", "groq_status", "groq_accepted", "groq_rejected"}
OpenAiTried == Did("openai_attribute_error")
HuggingFaceTried == Did("hf_attribute_error")
ProvidersInOrder ==
    Did("fallback") => GroqTried /\ OpenAiTried /\ HuggingFaceTried

\* C4: generate_summary_free never lets an exception out: whatever the
\* providers do, the call is at one of its steps or has returned a summary.
NeverRaises ==
    /\ pc # "raised"
    /\ pc \in {"gs_start", "groq", "groq_post", "openai", "fallback", "gs_return"}
    /\ pc = "gs_return" => summary # <<>>

\* C4, reached: a summary was returned after Groq raised on both requests
\* and the call of try_openai_free raised
RaisedAndReturned ==
    /\ pc = "gs_return"
    /\ At(1, "groq_exception") /\ At(3, "groq_exception")
    /\ Did("openai_attribute_error")

\* C5: try_groq_free sends a second request only after the first failed
\* in passing; a response below the quality check is not asked for again.
GroqRequests ==
    SelectSeq(trace, LAMBDA e :
        e \in {"groq_exception", "groq_status", "groq_accepted", "groq_rejected"})
RetryOnlyAfterTransient ==
    \A i \in 2..Len(GroqRequests) :
        GroqRequests[i - 1] \in {"groq_exception", "groq_status"}

MergedMarkerLines ==
    \E k \in 1..Len(FormatBullets(response)) :
        \E i \in 2..Len(FormatBullets(response)[k]) :
            /\ FormatBullets(response)[k][i - 1].c = "nl"
            /\ FormatBullets(response)[k][i].c = "bullet"

SubstanceInvariant ==
    pc = "scraped" => content = <<>> \/ Length(content) >= MinContentChars

(* clean_extracted_content, under SpecClean *)

\* C8: clean_extracted_content applied to its own result returns that
\* result.
CleanIdempotent == Len(clean_out) = 2 => clean_out[2] = clean_out[1]

\* C8, reached: a text that the first application changed and did not
\* empty was cleaned a second time
CleanedTwice ==
    /\ Len(clean_out) = 2
    /\ clean_out[1] # clean_in
    /\ clean_out[1] # <<>>

(* run_daily_aggregation, under Spec *)

\* C9: an article whose page was fetched and gave no content is handed to
\* generate_summary_free all the same.
EmptyContentSummarized ==
    [][(pc = "scraped" /\ Last("extract") /\ content = <<>>) => pc' = "gs_start"]_vars

\* C10: when every attempt to fetch the page of an article has failed,
\* nothing was extracted or summarized for it, it is not added to the
\* articles of the run, and the run goes on with the next article of the
\* source or, after the last one, with the next source.
FetchExhausted ==
    /\ pc = "scraped"
    /\ Len(SelectSeq(trace, LAMBDA e : e = "fetch_failed")) = max_retries
FailedFetchSkipsArticle ==
    [][FetchExhausted =>
        /\ ~Did("fetch_ok") /\ ~Did("extract")
        /\ \A i \in 1..Len(trace) : trace[i] \in {"fetch_failed", "fetch_sleep"}
        /\ content = <<>> /\ summary = <<>>
        /\ all_articles' = all_articles
        /\ IF art < fetched
           THEN pc' = "article" /\ art' = art + 1 /\ src' = src
           ELSE pc' = "source" /\ src' = src + 1]_vars

\* C10, reached: the fetch of an article failed three times and the source
\* has another article
FetchExhaustedBeforeLast == FetchExhausted /\ art < fetched


(* scrape_article_content: the requests for the page, under SpecScrape *)

\* the requests for the page made so far
FetchRequests == SelectSeq(trace, LAMBDA e : e \in {"fetch_ok", "fetch_failed"})

\* C11 as stated: at most 3 requests are made for a page and every wait
\* between two of them is longer than the wait before it.
BackoffIncreases ==
    /\ Len(FetchRequests) <= max_retries
    /\ \A k \in 2..Len(fetch_delays) : fetch_delays[k] > fetch_delays[k - 1]

\* C11, amended: at most 3 requests are made for a page, one wait comes
\* after every failed request but the last, and every wait is of 2 to 5
\* seconds, whatever the waits before it.
FetchBounded ==
    /\ Len(FetchRequests) <= max_retries
    /\ Len(fetch_delays) <= max_retries - 1
    /\ Len(fetch_delays) =
         Len(SelectSeq(trace, LAMBDA e : e = "fetch_failed"))
           - (IF pc = "scraped" /\ ~Did("fetch_ok") THEN 1 ELSE 0)
    /\ \A k \in 1..Len(fetch_delays) :
         fetch_delays[k] >= MinFetchDelay /\ fetch_delays[k] <= MaxFetchDelay

\* C11, reached: three requests failed and the second wait was shorter than
\* the first
ShorterSecondWait ==
    /\ pc = "scraped"
    /\ Len(FetchRequests) = max_retries
    /\ Len(fetch_delays) = 2
    /\ fetch_delays[2] < fetch_delays[1]


(* try_groq_free: the wait before a retry, under SpecSummary *)

\* C12: a request to Groq that follows one that ended in a status other
\* than 200 or in an exception comes right after a wait, and every wait is
\* of 3 seconds.
RetryAfterDelay ==
    /\ \A i \in 2..Len(trace) :
         (/\ trace[i] \in {"groq_exception", "groq_status", "groq_accepted",
                           "groq_rejected"}
          /\ trace[i - 1] \in {"groq_exception", "groq_status", "groq_sleep"})
         => trace[i - 1] = "groq_sleep"
    /\ \A k \in 1..Len(groq_delays) : groq_delays[k] = 3


(* format_ai_summary, under SpecFormat *)

\* C13: for a known preamble line, a marker line that passes the tests of
\* a bullet and a marker line that is too short, format_ai_summary returns
\* one bullet, the valid line without its marker; "Here's a summary:",
\* "1. Revenue grew 12%.", "2. ." gives the bullet "Revenue grew 12%.".
OneBulletWithoutMarker ==
    pc = "formatted" =>
        /\ \A p \in Preambles, m \in Markers, v \in ValidLines, sh \in ShortLines,
              o \in BOOLEAN :
             summary_text = MarkedText(p, m, v, sh, o) => formatted = Bullet(v)
        /\ summary_text = RspPreamble => formatted = Bullet(LnGrew)


\* a content of one sentence that a financial pattern matches, long enough
\* for generate_summary_free to go on to the providers
OneFinancialSentence(c) ==
    /\ Len(SplitSentences(NewlinesToBlanks(c))) = 1
    /\ FinancialMatches(c) > 0
    /\ ~ContentMissing(c)

\* C14, as stated: without credentials, generate_summary_free on a content
\* of one financial sentence reaches the fallback, which scores the sentence
\* above zero and returns it as the only bullet; so for "Acme Corp raised
\* $30 million in Series B funding to expand operations."
FallbackReturnsSentence ==
    (pc = "gs_return" /\ ~groq_api_key /\ OneFinancialSentence(content)) =>
        /\ Last("fallback")
        /\ Score(content) > 0
        /\ summary = Bullet(content)

\* C14, amended: the fallback is reached and the sentence scores above
\* zero, but it is returned as the only bullet when it has 20 words or more;
\* with fewer words the summary is the one made from the title.
FallbackReturnsLongSentence ==
    (pc = "gs_return" /\ ~groq_api_key /\ OneFinancialSentence(content)) =>
        /\ Last("fallback")
        /\ Score(content) > 0
        /\ Len(WordsOf(content)) >= MinSummaryWords => summary = Bullet(content)
        /\ Len(WordsOf(content)) < MinSummaryWords =>
              summary = create_title_based_summary(title)

\* C14, reached: the sentence of 12 words gave the summary of the title, and
\* not the sentence
ShortSentenceGaveTitle ==
    /\ pc = "gs_return" /\ ~groq_api_key /\ content = LnRaised
    /\ Last("fallback")
    /\ summary = create_title_based_summary(title)
    /\ summary # Bullet(content)


(* create_title_based_summary, under SpecSummary *)

\* the bullets create_title_based_summary composed, after the bullet of the
\* title itself
ComposedBullets == Tail(SplitNL(summary))
\* a composed bullet holds a word of the class
Names(class) ==
    \E i \in 1..Len(ComposedBullets) : HasClass(ComposedBullets[i], {class})

\* C15: the bullets create_title_based_summary composes name tokens of the
\* title: for "HealthCo Raises $50M Series C" they name "HealthCo", "$50M"
\* and "raises", and every amount reported is an amount with its unit that
\* stands in the title.
TitleTokensReported ==
    (pc = "gs_return" /\ Last("title_floor") /\ summary # <<>>) =>
        /\ title = TtlHealthCo => Names("camel") /\ Names("usdM") /\ Names("raises")
        /\ \A i \in 1..Len(ComposedBullets) :
              StartsWith(ComposedBullets[i], BulletMark \o TxtAmounts) =>
                \A k \in (Len(BulletMark \o TxtAmounts) + 1)..Len(ComposedBullets[i]) :
                    LET t == ComposedBullets[i][k]
                    IN  IsWord(t) => /\ t.c \in DollarClasses
                                     /\ \E m \in 1..Len(title) : title[m] = Bare(t)


(* the selector cascade of scrape_article_content, under SpecScrape *)

\* an element the i-th content selector matches is longer than the threshold
Clears(i) ==
    \E k \in 1..Len(page.matches[i]) :
        Length(Strip(page.matches[i][k])) > MinSelectorChars
\* the k-th element the i-th selector matches is one of its longest
Longest(i, k) ==
    \A j \in 1..Len(page.matches[i]) :
        Length(Strip(page.matches[i][j])) <= Length(Strip(page.matches[i][k]))

\* C16: the body comes from the first content selector, in the order of the
\* list, whose longest match has more than 200 characters, and from a
\* longest element that selector matches: a shorter element the same
\* selector matches is never taken.
SelectorCascade ==
    (pc = "scraped" /\ Last("extract")) =>
        \A i \in 1..Len(page.matches) :
            (Clears(i) /\ \A j \in 1..(i - 1) : ~Clears(j)) =>
                \E k \in 1..Len(page.matches[i]) :
                    /\ Longest(i, k)
                    /\ content = Truncate(clean_extracted_content(page.matches[i][k]),
                                          MaxContentChars)

\* C16, reached: the second selector matches two sidebars and an article
\* block, the first a sidebar only, and the body is that of the article block
ArticleBlockChosen ==
    /\ pc = "scraped" /\ Last("extract")
    /\ page.matches = << <<TxtSidebar>>, <<TxtSidebar, TxtArticle, TxtSidebar>> >>
    /\ Length(Strip(TxtSidebar)) <= MinSelectorChars
    /\ content = Truncate(clean_extracted_content(TxtArticle), MaxContentChars)
    /\ content # Truncate(clean_extracted_content(TxtSidebar), MaxContentChars)
    /\ content # <<>>


(* the count of bullets, under SpecSummary *)

\* the lines of a summary that open with the bullet marker
BulletLines(text) ==
    {i \in 1..Len(text) : text[i].c = "bullet" /\ (i = 1 \/ text[i - 1].c = "nl")}

\* C17: every summary generate_summary_free returns holds 1 to 4 bullets,
\* whether it comes from a provider through format_ai_summary, from
\* enhanced_simple_summary or from create_title_based_summary.
OneToFourBullets ==
    pc = "gs_return" =>
        /\ Cardinality(BulletLines(summary)) >= 1
        /\ Cardinality(BulletLines(summary)) <= MaxBullets


(* the size test of clean_extracted_content, under SpecClean *)

\* the stripped lines of the text handed to clean_extracted_content
LinesIn == StripAll(SplitLines(clean_in))
\* the lines of what it returned
LinesOut == SplitLines(clean_out[1])
\* the line is one of the lines of a list
Among(line, ls) == \E i \in 1..Len(ls) : ls[i] = line
\* the line matches none of the boilerplate markers of lines 560-566
NoBoilerplate(line) ==
    /\ ~IsDigit(line)
    /\ ~HasCopyright(line)
    /\ ~HasClass(line, SkipPatternClasses)
    /\ ~StartsWithCount(line, "cnt")
    /\ ~StartsWithMonth(line)
    /\ ~DatePunctOnly(line)
    /\ CountPipes(line) < MaxPipes

\* C18, as stated: a line is dropped for its size only when it is short and
\* has few words as well: a line of at most 20 characters with more than 4
\* words and no boilerplate marker survives (said here of lines of more than
\* 15 characters, which the pass over duplicates asks of every line).
DenseLineSurvives ==
    Len(clean_out) >= 1 =>
        \A i \in 1..Len(LinesIn) :
            (/\ Length(LinesIn[i]) <= MinLineChars
             /\ Length(LinesIn[i]) > MinUniqueChars
             /\ Len(WordsOf(LinesIn[i])) > MinLineWords
             /\ NoBoilerplate(LinesIn[i])) => Among(LinesIn[i], LinesOut)

\* C18, amended: a line is dropped for its size when it has at most 20
\* characters or at most 4 words, either of the two; a line with more of
\* both and no boilerplate marker survives.
ShortOrFewWordsDropped ==
    Len(clean_out) >= 1 =>
        \A i \in 1..Len(LinesIn) :
            /\ (Length(LinesIn[i]) <= MinLineChars
                 \/ Len(WordsOf(LinesIn[i])) <= MinLineWords) => ~Among(LinesIn[i], LinesOut)
            /\ (/\ Length(LinesIn[i]) > MinLineChars
                /\ Len(WordsOf(LinesIn[i])) > MinLineWords
                /\ NoBoilerplate(LinesIn[i])) => Among(LinesIn[i], LinesOut)

\* C18, reached: a line of 17 characters and 6 words without a boilerplate
\* marker was dropped, and so was a line of 40 characters and one word
DenseLineDropped ==
    /\ Len(clean_out) >= 1
    /\ Among(Strip(LnDense), LinesIn) /\ Among(LnRepeat, LinesIn)
    /\ Length(Strip(LnDense)) <= MinLineChars /\ Len(WordsOf(LnDense)) > MinLineWords
    /\ NoBoilerplate(Strip(LnDense))
    /\ ~Among(Strip(LnDense), LinesOut) /\ ~Among(LnRepeat, LinesOut)


(* the text scrape_article_content returns, under SpecScrape *)

\* C19: the text scrape_article_content returns has at most 15000
\* characters, no two equal lines and no line of 20 characters or fewer,
\* also when the cut at 15000 characters goes through the last line.
CleanTextInvariant ==
    (pc = "scraped" /\ Last("extract")) =>
        LET lines == SplitLines(content)
        IN  /\ Length(content) <= MaxContentChars
            /\ \A i, j \in 1..Len(lines) : lines[i] = lines[j] => i = j
            /\ \A i \in 1..Len(lines) : Length(lines[i]) > MinLineChars


(* the loop over add_to_notion of run_daily_aggregation, under Spec *)

\* the indices 1 to n in order
UpTo(n) == [k \in 1..n |-> k]

\* C20: a failure to persist never ends the batch: with the Notion
\* credentials set, every article of the processed list is handed to
\* add_to_notion once, in order, whatever the calls before it returned or
\* raised, and after the loop successful_notion + failed_notion is the
\* number of processed articles.
NotionNeverAborts ==
    /\ pc # "raised"
    /\ pc = "notion" =>
          /\ notion_i \in 1..Len(all_articles)
          /\ submitted = UpTo(notion_i - 1)
          /\ successful_notion + failed_notion = notion_i - 1
    /\ (pc = "done" /\ notion_ok /\ all_articles # <<>>) =>
          /\ submitted = UpTo(Len(all_articles))
          /\ successful_notion + failed_notion = Len(all_articles)

\* C20, reached: the loop is over, a call of add_to_notion failed and one
\* succeeded, and both articles were handed over
FailureDidNotAbort ==
    /\ pc = "done" /\ notion_ok
    /\ Len(all_articles) >= 2
    /\ failed_notion >= 1 /\ successful_notion >= 1
    /\ submitted = UpTo(Len(all_articles))


(* the work on one article comes to an end, under Spec *)

\* the article in hand is being scraped or summarized
Processing ==
    pc \in {"fetch", "extract", "scraped", "gs_start", "groq", "groq_post", "openai",
            "fallback", "gs_return"}

\* how far the work on the article in hand is from its end, at most: the
\* turns the two loops have left count on top of the steps after them
StepsLeft ==
    IF pc = "fetch" THEN 20 + (max_retries - attempt)
    ELSE IF pc = "extract" THEN 19
    ELSE IF pc = "scraped" THEN 18
    ELSE IF pc = "gs_start" THEN 17
    ELSE IF pc = "groq" THEN 16
    ELSE IF pc = "groq_post" THEN 12 + (GroqAttempts - groq_attempt)
    ELSE IF pc = "openai" THEN 11
    ELSE IF pc = "fallback" THEN 10
    ELSE IF pc = "gs_return" THEN 9
    ELSE 0

\* C21: nothing is tried again without end: for one article at most 3
\* requests are made for the page and at most 2 to a provider, whatever
\* fails, and every step of the work on the article brings its end nearer.
ArticleTerminates ==
    /\ [](/\ Len(FetchRequests) <= max_retries
          /\ Len(GroqRequests) <= GroqAttempts
          /\ attempt \in 0..(max_retries - 1)
          /\ groq_attempt \in 0..GroqAttempts
          /\ StepsLeft >= 0)
    /\ [][Processing => StepsLeft' < StepsLeft]_vars

\* C21, reached: the page came with the third request, both requests to
\* Groq failed, and the article has its summary
AllAttemptsUsed ==
    /\ pc = "gs_return"
    /\ Len(FetchRequests) = max_retries
    /\ Len(GroqRequests) = GroqAttempts
    /\ Last("fallback")


(* the endings of the bullets of format_ai_summary, under SpecFormat *)

\* C22: no bullet format_ai_summary returns ends with an ellipsis, as three
\* full stops or as the one character, or with a comma: a line or a
\* sentence that ends so is dropped, in the pass over the marker lines and
\* in the pass over the sentences.
NoTrailingEnd ==
    pc = "formatted" =>
        \A b \in BulletsOf(formatted) :
            b # <<>> => b[Len(b)].e \notin {"...", "hellip", ","}


(* the gate of try_groq_free, under SpecSummary *)

\* C23: without a key, or with a content of fewer than 100 characters
\* after trimming, try_groq_free sends no request and returns no summary,
\* and generate_summary_free goes on to what comes after Groq.
GateSkipsWithoutRequest ==
    (~groq_api_key \/ Length(Strip(content)) < MinGroqContent) =>
        /\ GroqRequests = <<>>
        /\ groq_return = <<>>
        /\ pc \in {"gs_start", "groq", "openai", "fallback", "gs_return"}
        /\ (pc \in {"openai", "fallback", "gs_return"} /\ ~Did("title_floor")) =>
              /\ At(1, "groq_skipped")
              /\ At(2, "openai_attribute_error") \/ (pc = "openai" /\ Len(trace) = 1)

\* C23, reached: with a key, a content of 102 characters that trims to 99
\* was summarized without a request to Groq
TrimmedBelowGate ==
    /\ pc = "gs_return" /\ groq_api_key
    /\ content = TxtBelowGate
    /\ Length(content) >= MinGroqContent /\ Length(Strip(content)) = MinGroqContent - 1
    /\ At(1, "groq_skipped") /\ GroqRequests = <<>> /\ groq_return = <<>>
    /\ Last("fallback")


(* the ranking of enhanced_simple_summary, under SpecFallback *)

\* the sentences of the content, as line 782 splits it
Sentences == StripAll(SplitSentences(NewlinesToBlanks(content)))
\* the places of the sentences that are long enough to be scored and score
\* above zero
Scoring ==
    LET sentences == Sentences
    IN  {i \in 1..Len(sentences) :
            /\ Length(sentences[i]) > MinSentenceChars
            /\ Len(WordsOf(sentences[i])) > MinSentenceWords
            /\ Score(sentences[i]) > 0}
\* the bullets are the sentences at the places f(1), f(2), ..., by falling
\* score, those of one score in the order of the text, and no sentence
\* left out would come before one that is in; score[i] is the score of the
\* i-th sentence
RankedBy(f, bullets, sentences, score, scoring) ==
    LET n == Len(bullets)
    IN  /\ \A k \in 1..n : bullets[k] = Bullet(sentences[f[k]])
        /\ \A k, m \in 1..n : k < m =>
              /\ f[k] # f[m]
              /\ score[f[k]] >= score[f[m]]
              /\ score[f[k]] = score[f[m]] => f[k] < f[m]
        /\ \A i \in scoring : \A k \in 1..n :
              (\A m \in 1..n : f[m] # i) =>
                  /\ score[i] <= score[f[k]]
                  /\ score[i] = score[f[k]] => f[k] < i
\* the summary holds the best of the scoring sentences, three at most
TopRanked ==
    LET sentences == Sentences
        score == [i \in 1..Len(sentences) |-> Score(sentences[i])]
        scoring == Scoring
        bullets == SplitNL(summary)
        n == IF Cardinality(scoring) < MaxKeyBullets THEN Cardinality(scoring)
             ELSE MaxKeyBullets
    IN  /\ Len(bullets) = n
        /\ \E f \in [1..n -> scoring] : RankedBy(f, bullets, sentences, score, scoring)
\* one match of a financial pattern outweighs one of a business pattern,
\* that one of an entity pattern, and that one keyword
WeightsInOrder ==
    /\ Score(SnFinancial) = FinancialWeight /\ Score(SnBusiness) = BusinessWeight
    /\ Score(SnEntity) = EntityWeight /\ Score(SnCompany) = KeywordWeight
    /\ Score(SnPlatform) = KeywordWeight /\ Score(SnPlain) = 0
    /\ FinancialWeight > BusinessWeight /\ BusinessWeight > EntityWeight
    /\ EntityWeight > KeywordWeight

\* C24, as stated: whenever a sentence long enough to be scored scores
\* above zero, enhanced_simple_summary returns at most 3 bullets, the
\* sentences of highest score by falling score, those of equal score in
\* the order of the text.
RankedSummary ==
    (pc = "gs_return" /\ Last("fallback") /\ Scoring # {}) =>
        TopRanked /\ WeightsInOrder

\* C24, amended: so it is for a content of 20 words or more; a shorter
\* content gets the summary made from the title, whatever its sentences
\* score.
RankedSummaryOfLongContent ==
    (pc = "gs_return" /\ Last("fallback") /\ Scoring # {}) =>
        /\ WeightsInOrder
        /\ Len(WordsOf(content)) >= MinSummaryWords => TopRanked
        /\ Len(WordsOf(content)) < MinSummaryWords =>
              summary = create_title_based_summary(title)

\* C24, reached: of four scoring sentences in rising order of score the
\* three best were returned in falling order, and the keyword sentence
\* was left out
BestThreeReturned ==
    /\ pc = "gs_return" /\ Last("fallback")
    /\ content = Join(<<SnCompany, SnEntity, SnBusiness, SnFinancial>>, <<Sp(1)>>)
    /\ summary = Lines(<<Bullet(SnFinancial), Bullet(SnBusiness), Bullet(SnEntity)>>)


(* the statistics of the sources and the list of articles, under Spec *)

\* C25: for every source successful <= processed <= fetched at every
\* moment of the run, and an article is added to the list of the run only
\* with a content of more than 50 characters and a summary of more than
\* 30, both after trimming.
CountersInOrder ==
    /\ [](\A k \in 1..Len(source_stats) :
            /\ source_stats[k].successful <= source_stats[k].processed
            /\ source_stats[k].processed <= source_stats[k].fetched)
    /\ [][all_articles' # all_articles =>
            /\ all_articles' = Append(all_articles, [article EXCEPT !.summary = summary])
            /\ Length(Strip(content)) > MinScraped
            /\ Length(Strip(summary)) > MinAcceptedSummary]_vars

\* C25, reached: the run is over, a source had two articles, both were
\* processed and one of them is in the list
OneOfTwoSuccessful ==
    /\ pc = "done"
    /\ Len(all_articles) = 1
    /\ \E k \in 1..Len(source_stats) :
          /\ source_stats[k].fetched = 2
          /\ source_stats[k].processed = 2
          /\ source_stats[k].successful = 1

=============================================================================
